---- MODULE Spec2Model ----
(***************************************************************************)
(* Feature pipeline of the recommender: DatasetSampler.sample and          *)
(* compute_features_customers (recsys/features/customers.py) and           *)
(* compute_features_transactions (recsys/features/transactions.py).        *)
(*                                                                         *)
(* Each of the three components is a pure batch transform, so each gets a  *)
(* specification of its own: Init draws the input tables from bounded sets *)
(* and the actions apply the transform as the code computes it.            *)
(***************************************************************************)
EXTENDS Integers, Sequences, FiniteSets, TLC

VARIABLES
    customers_df,     \* DatasetSampler.sample: the customer table passed in
    transaction_df,   \* DatasetSampler.sample: the transaction table passed in
    size,             \* DatasetSampler._size
    rngState,         \* state of Python's process-wide `random` generator
    draws,            \* rows polars drew for each seed it was handed so far
    result,           \* what the last call of sample returned (or raised)
    prevResult,       \* what the call before it returned (or raised)
    cust_in,          \* compute_features_customers: df
    drop_null_age,    \* compute_features_customers: drop_null_age
    cust_out,         \* compute_features_customers: returned table or error
    tx_in,            \* compute_features_transactions: df
    tx_out            \* compute_features_transactions: returned table

samplerVars == <<customers_df, transaction_df, size, rngState, draws, result, prevResult>>
customerVars == <<cust_in, drop_null_age, cust_out>>
txVars == <<tx_in, tx_out>>
vars == <<samplerVars, customerVars, txVars>>

(***************************************************************************)
(* Generic helpers on tables (sequences of rows).                          *)
(***************************************************************************)
Range(s) == {s[i] : i \in 1..Len(s)}

SeqsUpTo(S, n) == UNION {[1..k -> S] : k \in 0..n}

\* number of positions of s that hold x
Count(s, x) == Cardinality({i \in 1..Len(s) : s[i] = x})

\* a nullable cell: <<>> is null, <<v>> holds v
Null == <<>>
Some(v) == <<v>>
IsNull(c) == c = <<>>
Val(c) == c[1]

NoCall == [kind |-> "none"]

(***************************************************************************)
(* DatasetSampler                                                          *)
(***************************************************************************)
\* Bounds of the sampler's inputs.
MaxCustomers == 3
MaxTransactions == 2
MaxRngState == 1

\* The three size classes, scaled down so that the customer table can be
\* larger than, equal to and smaller than each of them:
\* LARGE 50_000 -> SizeLarge, MEDIUM 5_000 -> SizeMedium, SMALL 1_000 -> SizeSmall.
SizeLarge == 3
SizeMedium == 2
SizeSmall == 1

SIZES == [LARGE |-> SizeLarge, MEDIUM |-> SizeMedium, SMALL |-> SizeSmall]

get_supported_sizes == SIZES

SEED == 42

CustomerIds == {"c1", "c2"}
\* a transaction may also name a customer that is in no customer table
ForeignKeys == CustomerIds \cup {"c3"}
ArticleIds == {108775015, 108775044}

CustomerRows == [customer_id : CustomerIds]
TransactionRows == [customer_id : ForeignKeys, article_id : ArticleIds]

\* random.seed(a): the generator's state is a function of a alone (the
\* first definition is the call left out).
RngAfterSeedIgnored(state) == state
RngAfterSeed(state) == SEED

\* DataFrame.sample(seed=None) takes its seed from random.randint, which
\* reads the generator's state and advances it.
RandIntValue(state) == state
RandIntNext(state) == state + 1

\* DataFrame.sample(n=n) on a table of h rows, with_replacement=False:
\* n row positions, no position twice, in an order the library chooses.
SampleChoicesWithReplacement(h, n) == [1..n -> 1..h]
SampleChoices(h, n) == {s \in [1..n -> 1..h] : \A i, j \in 1..n : s[i] = s[j] => i = j}

\* The draw is a function of the seed: a seed polars has seen before gives
\* the rows it gave before; a new seed gives any admissible draw.
DrawsFor(seed, h, n) ==
    IF seed \in DOMAIN draws THEN {draws[seed]} ELSE SampleChoices(h, n)

Remember(seed, rows) ==
    [s \in (DOMAIN draws) \cup {seed} |-> IF s = seed THEN rows ELSE draws[s]]

Take(df, rows) == [i \in 1..Len(rows) |-> df[rows[i]]]

\* customers_df.select("customer_id") of the table the join is made against
JoinKeysOfFullTable(sampled, full) == [i \in 1..Len(full) |-> full[i].customer_id]
JoinKeys(sampled, full) == [i \in 1..Len(sampled) |-> sampled[i].customer_id]

\* a row repeated k times
Repeat(row, k) == [i \in 1..k |-> row]

\* transaction_df.join(keys, on="customer_id"): inner join; one output row per
\* pair of a left row and a right row with equal keys; the right side brings no
\* column besides the key, so an output row is the left row.
RECURSIVE JoinFirstKeyOnly(_, _)
JoinFirstKeyOnly(left, keys) ==
    IF left = <<>> \/ keys = <<>> THEN <<>>
    ELSE (IF Head(left).customer_id = Head(keys) THEN <<Head(left)>> ELSE <<>>)
         \o JoinFirstKeyOnly(Tail(left), keys)

RECURSIVE Join(_, _)
Join(left, keys) ==
    IF left = <<>> THEN <<>>
    ELSE Repeat(Head(left), Count(keys, Head(left).customer_id)) \o Join(Tail(left), keys)

ShapeError == [kind |-> "ShapeError"]

SampleReturn(sampled) ==
    [kind |-> "ok",
     customers |-> sampled,
     transactions |-> Join(transaction_df, JoinKeys(sampled, customers_df))]

\* DatasetSampler.sample(customers_df, transaction_df)
Sample ==
    LET seeded == RngAfterSeed(rngState)
        n == SIZES[size]
        h == Len(customers_df)
        seed == RandIntValue(seeded)
    IN  /\ rngState' = RandIntNext(seeded)
        /\ prevResult' = result
        /\ IF n > h
           THEN \* polars: cannot take a larger sample than the total population
                /\ result' = ShapeError
                /\ draws' = draws
           ELSE \E rows \in DrawsFor(seed, h, n) :
                /\ draws' = Remember(seed, rows)
                /\ result' = SampleReturn(Take(customers_df, rows))
        /\ UNCHANGED <<customers_df, transaction_df, size, customerVars, txVars>>

\* Any other code of the process that uses the `random` module between two
\* calls of sample leaves the generator in some other state.
UseRandom ==
    /\ \E s \in 0..MaxRngState : rngState' = s
    /\ rngState' # rngState
    /\ UNCHANGED <<customers_df, transaction_df, size, draws, result, prevResult,
                   customerVars, txVars>>

IdleCustomer ==
    /\ cust_in = [columns |-> {}, age_dtype |-> "Float64", rows |-> <<>>]
    /\ drop_null_age = FALSE
    /\ cust_out = NoCall

IdleTx ==
    /\ tx_in = [t_dat_dtype |-> "Date", article_id_dtype |-> "Int64", rows |-> <<>>]
    /\ tx_out = NoCall

IdleSampler ==
    /\ customers_df = <<>>
    /\ transaction_df = <<>>
    /\ size = "SMALL"
    /\ rngState = 0
    /\ draws = <<>>
    /\ result = NoCall
    /\ prevResult = NoCall

InitSampler ==
    /\ customers_df \in SeqsUpTo(CustomerRows, MaxCustomers)
    /\ transaction_df \in SeqsUpTo(TransactionRows, MaxTransactions)
    /\ size \in DOMAIN SIZES
    /\ rngState = 0
    /\ draws = <<>>
    /\ result = NoCall
    /\ prevResult = NoCall
    /\ IdleCustomer
    /\ IdleTx

NextSampler == Sample \/ UseRandom

SpecSampler == InitSampler /\ [][NextSampler]_vars

(***************************************************************************)
(* compute_features_customers                                              *)
(*                                                                         *)
(* A table is [columns, age_dtype, rows]; a row maps each column of the    *)
(* table to a cell. An age is a rational number of years, held as the      *)
(* numerator over AgeDen, so that fractional ages are in the domain.       *)
(***************************************************************************)
MaxRows == 2
MaxAge == 67
AgeDen == 2

required_columns == <<"customer_id", "club_member_status", "age", "postal_code">>
\* a column the raw customer table has and the transform does not ask for
ExtraColumns == {"FN"}
AllColumns == Range(required_columns) \cup ExtraColumns

Years(n) == n * AgeDen
IsWhole(a) == a % AgeDen = 0

\* pl.col(name).is_between(lo, hi): closed on both ends; null for a null cell,
\* and a null condition does not select its branch
is_between(cell, lo, hi) ==
    /\ ~IsNull(cell)
    /\ Years(lo) <= Val(cell)
    /\ Val(cell) <= Years(hi)

\* create_age_group(): the when/then chain, evaluated on one age cell
create_age_group(cell) ==
    IF is_between(cell, 0, 18) THEN Some("0-18")
    ELSE IF is_between(cell, 19, 25) THEN Some("19-25")
    ELSE IF is_between(cell, 26, 35) THEN Some("26-35")
    ELSE IF is_between(cell, 36, 45) THEN Some("36-45")
    ELSE IF is_between(cell, 46, 55) THEN Some("46-55")
    ELSE IF is_between(cell, 56, 65) THEN Some("56-65")
    ELSE Some("66+")

\* df.with_columns(expr.alias(name)): every row gets (or replaces) column name
WithColumn(df, name, Expr(_)) ==
    [df EXCEPT !.columns = @ \cup {name},
               !.rows = [i \in 1..Len(df.rows) |->
                           [c \in df.columns \cup {name} |->
                               IF c = name THEN Expr(df.rows[i]) ELSE df.rows[i][c]]]]

\* pl.col(name).fill_null(value)
fill_null(cell, value) == IF IsNull(cell) THEN Some(value) ELSE cell

filling_missing_club_member_status(df) ==
    LET Filled(row) == fill_null(row["club_member_status"], "ABSENT")
    IN  WithColumn(df, "club_member_status", Filled)

\* df.drop_nulls(subset=[name])
drop_nulls(df, name) ==
    LET NotNull(row) == ~IsNull(row[name])
    IN  [df EXCEPT !.rows = SelectSeq(@, NotNull)]

drop_na_age_skipped(df) == df
drop_na_age(df) == drop_nulls(df, "age")

\* .with_columns([create_age_group(), pl.col("age").cast(pl.Float64)]): both
\* expressions read the table as it was; the cast keeps every age's value
\* (the ages are integers or floats far below 2^53) and sets the dtype
WithAgeGroupAndFloatAge(df) ==
    LET Group(row) == create_age_group(row["age"])
    IN  [WithColumn(df, "age_group", Group) EXCEPT !.age_dtype = "Float64"]

\* df.select(names)
Select(df, names) ==
    [df EXCEPT !.columns = Range(names),
               !.rows = [i \in 1..Len(df.rows) |-> [c \in Range(names) |-> df.rows[i][c]]]]

output_columns == <<"customer_id", "club_member_status", "age", "postal_code", "age_group">>

\* [col for col in required_columns if col not in df.columns]
missing_columns_first_only(df) ==
    LET Missing(col) == col \notin df.columns
        all == SelectSeq(required_columns, Missing)
    IN  IF all = <<>> THEN <<>> ELSE <<Head(all)>>
missing_columns(df) ==
    LET Missing(col) == col \notin df.columns
    IN  SelectSeq(required_columns, Missing)

\* the body of compute_features_customers after the validation
CustomerPipeline(df, flag) ==
    LET piped == Select(WithAgeGroupAndFloatAge(
                     drop_na_age(filling_missing_club_member_status(df))),
                     output_columns)
    IN  IF flag = TRUE THEN drop_nulls(piped, "age") ELSE piped

ValueError(missing) == [kind |-> "ValueError", missing |-> missing]

compute_features_customers(df, flag) ==
    IF missing_columns(df) # <<>>
    THEN ValueError(missing_columns(df))
    ELSE [kind |-> "ok", table |-> CustomerPipeline(df, flag)]

ComputeFeaturesCustomers ==
    /\ cust_out' = compute_features_customers(cust_in, drop_null_age)
    /\ UNCHANGED <<cust_in, drop_null_age, samplerVars, txVars>>

AgeCells(ages) == {Null} \cup {Some(a) : a \in ages}
StatusCells == {Null, Some("ACTIVE")}

FullRows(ages) ==
    [customer_id : CustomerIds,
     club_member_status : StatusCells,
     age : AgeCells(ages),
     postal_code : {"52043"},
     FN : {Null}]

\* the rows of a table that has the columns cols
RowsOver(cols, ages) == {[c \in cols |-> r[c]] : r \in FullRows(ages)}

AllAges == 0..Years(MaxAge)
\* ages of the customer tables of SpecCustomers: on, between and beyond the bins
SomeAges == {Years(10), Years(18), Years(18) + 1, Years(70)}

CustomerTables(colsets, ages, maxRows) ==
    UNION {
        UNION {
            {[columns |-> cols, age_dtype |-> dt, rows |-> rows] :
                rows \in {s \in SeqsUpTo(RowsOver(cols, ages), maxRows) :
                            (dt = "Int64" /\ "age" \in cols) =>
                                \A i \in 1..Len(s) :
                                    ~IsNull(s[i]["age"]) => IsWhole(Val(s[i]["age"]))}}
            : dt \in IF "age" \in cols THEN {"Int64", "Float64"} ELSE {"Float64"}}
        : cols \in colsets}

InitCustomers ==
    /\ cust_in \in CustomerTables(SUBSET AllColumns, SomeAges, MaxRows)
    /\ drop_null_age \in BOOLEAN
    /\ cust_out = NoCall
    /\ IdleSampler
    /\ IdleTx

\* one-row tables with every required column, over every age up to MaxAge
InitAgeGroup ==
    /\ cust_in \in CustomerTables({Range(required_columns)}, AllAges, 1)
    /\ drop_null_age \in BOOLEAN
    /\ cust_out = NoCall
    /\ IdleSampler
    /\ IdleTx

NextCustomers == ComputeFeaturesCustomers

SpecCustomers == InitCustomers /\ [][NextCustomers]_vars

SpecAgeGroup == InitAgeGroup /\ [][NextCustomers]_vars

(***************************************************************************)
(* compute_features_transactions                                           *)
(*                                                                         *)
(* A transaction table is [t_dat_dtype, article_id_dtype, rows]. A t_dat   *)
(* cell is the instant it denotes, in whole seconds since 1970-01-01       *)
(* 00:00:00; the column's dtype says in which unit polars stores it.       *)
(* The stored integers do not fit TLC's 32 bits, so an integer is held as  *)
(* [m, e], meaning m * 10^e, with m not a multiple of 10 (0 is [0, 0]).    *)
(***************************************************************************)
MaxTxRows == 2
WindowDays == 1

\* the days the windows of input timestamps start on: 1969-12-31, 2000-02-28,
\* 2019-12-31, 2020-01-14, 2020-02-28 and 2021-02-28, as days since the epoch
WindowStarts == {-1, 11015, 18261, 18275, 18320, 18686}

SecondsPerDay == 24 * 60 * 60

RECURSIVE Pow10(_)
Pow10(k) == IF k = 0 THEN 1 ELSE 10 * Pow10(k - 1)

RECURSIVE Dec(_, _)
Dec(m, e) ==
    IF m = 0 THEN [m |-> 0, e |-> 0]
    ELSE IF m % 10 = 0 THEN Dec(m \div 10, e + 1)
    ELSE [m |-> m, e |-> e]

\* floor division of m * 10^e by 10^k
DecFloorDiv(m, e, k) ==
    IF e >= k THEN Dec(m, e - k) ELSE Dec(m \div Pow10(k - e), 0)

\* the exponent of the unit a dtype counts in, relative to one second
UnitExponent(dtype) ==
    CASE dtype = "Datetime(ns)" -> 9
      [] dtype = "Datetime(us)" -> 6
      [] dtype = "Datetime(ms)" -> 3

\* pl.col("t_dat").cast(pl.Int64) // 1_000_000: the physical integer of the
\* column (nanoseconds, microseconds or milliseconds since the epoch for a
\* Datetime, days since the epoch for a Date), floor-divided by 10^6
CastInt64FloorDivMillion(dtype, t) ==
    IF dtype = "Date"
    THEN DecFloorDiv(t \div SecondsPerDay, 0, 6)
    ELSE DecFloorDiv(t, UnitExponent(dtype), 6)

convert_t_dat_to_epoch_millisecond(dtype, t) == CastInt64FloorDivMillion(dtype, t)

\* the date of an instant, as polars' dt accessors compute it: days since the
\* epoch to (year, month, day) in the proleptic Gregorian calendar
DaysOf(t) == t \div SecondsPerDay

CivilFromDays(days) ==
    LET z == days + 719468
        era == z \div 146097
        doe == z - era * 146097
        yoe == (doe - doe \div 1460 + doe \div 36524 - doe \div 146096) \div 365
        doy == doe - (365 * yoe + yoe \div 4 - yoe \div 100)
        mp == (5 * doy + 2) \div 153
        d == doy - (153 * mp + 2) \div 5 + 1
        mo == IF mp < 10 THEN mp + 3 ELSE mp - 9
        y == yoe + era * 400 + (IF mo <= 2 THEN 1 ELSE 0)
    IN  [year |-> y, month |-> mo, day |-> d]

dt_year(t) == CivilFromDays(DaysOf(t)).year
dt_month(t) == CivilFromDays(DaysOf(t)).month
dt_day(t) == CivilFromDays(DaysOf(t)).day
\* ISO weekday, Monday 1 .. Sunday 7; 1970-01-01 was a Thursday
dt_weekday(t) == ((DaysOf(t) + 3) % 7) + 1

get_year_feature(t) == dt_year(t)
get_month_feature(t) == dt_month(t)
get_day_feature(t) == dt_day(t)
get_day_of_week_feature(t) == dt_weekday(t)

\* the second with_columns of compute_features_transactions
CalendarColumnsDayMonthSwapped(t) ==
    [year |-> dt_year(t), month |-> dt_day(t), day |-> dt_month(t),
     day_of_week |-> dt_weekday(t)]
CalendarColumns(t) ==
    [year |-> dt_year(t), month |-> dt_month(t), day |-> dt_day(t),
     day_of_week |-> dt_weekday(t)]

TransformRow(dtype, row) ==
    LET cal == CalendarColumns(row.t_dat)
    IN  [customer_id |-> row.customer_id,
         article_id |-> row.article_id,
         year |-> cal.year,
         month |-> cal.month,
         day |-> cal.day,
         day_of_week |-> cal.day_of_week,
         t_dat |-> convert_t_dat_to_epoch_millisecond(dtype, row.t_dat)]

\* article_id is cast to Utf8 (the digits are kept), t_dat becomes Int64
compute_features_transactions(df) ==
    [kind |-> "ok",
     table |-> [t_dat_dtype |-> "Int64",
                article_id_dtype |-> "Utf8",
                rows |-> [i \in 1..Len(df.rows) |-> TransformRow(df.t_dat_dtype, df.rows[i])]]]

ComputeFeaturesTransactions ==
    /\ tx_out' = compute_features_transactions(tx_in)
    /\ UNCHANGED <<tx_in, samplerVars, customerVars>>

Days == UNION {a..(a + WindowDays) : a \in WindowStarts}
\* a Datetime cell is at midnight or in the last second of its day
Instants(dtype) ==
    {d * SecondsPerDay + s : d \in Days,
                             s \in IF dtype = "Date" THEN {0} ELSE {0, SecondsPerDay - 1}}

TxInputRows(dtype) == [customer_id : {"c1"}, article_id : {108775015}, t_dat : Instants(dtype)]

TDatDtypes == {"Datetime(ns)", "Datetime(us)", "Datetime(ms)", "Date"}

InitTransactions ==
    /\ \E dtype \in TDatDtypes, adt \in {"Int64", "Utf8"} :
        \E rows \in SeqsUpTo(TxInputRows(dtype), MaxTxRows) :
            tx_in = [t_dat_dtype |-> dtype, article_id_dtype |-> adt, rows |-> rows]
    /\ tx_out = NoCall
    /\ IdleSampler
    /\ IdleCustomer

NextTransactions == ComputeFeaturesTransactions

SpecTransactions == InitTransactions /\ [][NextTransactions]_vars

(***************************************************************************)
(* Claims about DatasetSampler.sample, checked under SpecSampler.          *)
(***************************************************************************)
Returned == result.kind = "ok"

SampledIds == {result.customers[i].customer_id : i \in 1..Len(result.customers)}

UniqueCustomerIds ==
    \A i, j \in 1..Len(customers_df) :
        customers_df[i].customer_id = customers_df[j].customer_id => i = j

\* C1: every row of the returned transactions table has a customer_id that is
\* in the customer_id column of the returned customers table.
C1_ReferentialIntegrity ==
    Returned =>
        \A i \in 1..Len(result.transactions) :
            \E j \in 1..Len(result.customers) :
                result.customers[j].customer_id = result.transactions[i].customer_id

\* a call returned, kept a transaction and dropped one of a customer that is
\* in the customer table but was not sampled
C1_Witness ==
    /\ Returned
    /\ Len(result.transactions) >= 1
    /\ \E i \in 1..Len(transaction_df) :
        /\ transaction_df[i].customer_id \notin SampledIds
        /\ \E j \in 1..Len(customers_df) :
            customers_df[j].customer_id = transaction_df[i].customer_id

\* C2: two calls of sample on the same tables with the same size class return
\* the same thing, whatever happened to the random generator in between.
C2_Determinism ==
    prevResult.kind # "none" => result = prevResult

\* two calls returned, the draw had more than one possible outcome, and other
\* code has used the generator since
C2_Witness ==
    /\ prevResult.kind = "ok"
    /\ Returned
    /\ Len(customers_df) > SIZES[size]
    /\ rngState \in 0..MaxRngState

\* C3: when the customer table has at least as many rows as the size class
\* asks for, the call returns exactly that many customers, each a different
\* row of the customer table.
C3_SampleSize ==
    (result.kind # "none" /\ Len(customers_df) >= SIZES[size]) =>
        /\ Returned
        /\ Len(result.customers) = SIZES[size]
        /\ \E f \in [1..SIZES[size] -> 1..Len(customers_df)] :
            /\ \A i, j \in 1..SIZES[size] : f[i] = f[j] => i = j
            /\ \A i \in 1..SIZES[size] : result.customers[i] = customers_df[f[i]]

\* a call returned two or more rows, fewer than the table has, of a table
\* that holds different customers
C3_Witness ==
    /\ Returned
    /\ Cardinality(Range(customers_df)) >= 2
    /\ Len(customers_df) > SIZES[size]
    /\ SIZES[size] >= 2

\* C10: with unique customer ids, the returned transactions are exactly the
\* input transactions of the sampled customers, each as often as it is in the
\* input and unchanged, and no sampled customer is lost for having none.
C10_TransactionsComplete ==
    (Returned /\ UniqueCustomerIds) =>
        /\ \A r \in TransactionRows :
            Count(result.transactions, r) =
                IF r.customer_id \in SampledIds THEN Count(transaction_df, r) ELSE 0
        /\ Range(result.transactions) \subseteq Range(transaction_df)
        /\ Len(result.customers) = SIZES[size]

\* a call returned a customer who has no transaction, kept a transaction of
\* a sampled customer and dropped one of somebody else
C10_Witness ==
    /\ Returned
    /\ UniqueCustomerIds
    /\ Len(result.transactions) >= 1
    /\ Len(result.transactions) < Len(transaction_df)
    /\ \E c \in SampledIds :
        \A i \in 1..Len(transaction_df) : transaction_df[i].customer_id # c

(***************************************************************************)
(* Claims about compute_features_customers.                                *)
(***************************************************************************)
CustomerTableReturned == cust_out.kind = "ok"

OutRows == cust_out.table.rows

AgeGroups == {"0-18", "19-25", "26-35", "36-45", "46-55", "56-65", "66+"}

\* the bin of a whole number of years in the ordered partition
\* 0-18, 19-25, 26-35, 36-45, 46-55, 56-65, 66+
BinOfYears(y) ==
    IF y <= 18 THEN "0-18"
    ELSE IF y <= 25 THEN "19-25"
    ELSE IF y <= 35 THEN "26-35"
    ELSE IF y <= 45 THEN "36-45"
    ELSE IF y <= 55 THEN "46-55"
    ELSE IF y <= 65 THEN "56-65"
    ELSE "66+"

Floor(a) == a \div AgeDen
Ceil(a) == (a + AgeDen - 1) \div AgeDen

\* An age strictly between two whole years lies in the bin of the year below
\* or in the bin of the year above, wherever the partition puts the cut.
BinsOf(a) == {BinOfYears(Floor(a)), BinOfYears(Ceil(a))}

\* C4: every output row carries exactly one of the seven labels, and it is the
\* bin its age (whole or fractional, >= 0) lies in.
C4_AgeBinning ==
    CustomerTableReturned =>
        \A i \in 1..Len(OutRows) :
            LET age == OutRows[i]["age"]
                group == OutRows[i]["age_group"]
            IN  (~IsNull(age) /\ Val(age) >= 0) =>
                    /\ ~IsNull(group)
                    /\ Val(group) \in AgeGroups
                    /\ Val(group) \in BinsOf(Val(age))

\* the input rows whose age is not null, in input order
RowsWithAge == LET HasAge(row) == ~IsNull(row["age"]) IN SelectSeq(cust_in.rows, HasAge)

\* C5: for both values of drop_null_age the output rows are the input rows
\* whose age is not null, in input order; no output row has a null age,
\* age_group or club_member_status; and the flag does not change the output.
C5_NullHandling ==
    CustomerTableReturned =>
        /\ Len(OutRows) = Len(RowsWithAge)
        /\ \A i \in 1..Len(OutRows) :
            /\ OutRows[i]["customer_id"] = RowsWithAge[i]["customer_id"]
            /\ OutRows[i]["age"] = RowsWithAge[i]["age"]
            /\ OutRows[i]["postal_code"] = RowsWithAge[i]["postal_code"]
            /\ OutRows[i]["club_member_status"] \in
                   {RowsWithAge[i]["club_member_status"], Some("ABSENT")}
            /\ ~IsNull(OutRows[i]["age"])
            /\ ~IsNull(OutRows[i]["age_group"])
            /\ ~IsNull(OutRows[i]["club_member_status"])
        /\ cust_out = compute_features_customers(cust_in, ~drop_null_age)

\* a call without the flag returned one row of a table that also had a row
\* with a null age, and filled a null status
C5_Witness ==
    /\ CustomerTableReturned
    /\ drop_null_age = FALSE
    /\ Len(OutRows) = 1
    /\ Len(cust_in.rows) = 2
    /\ \E i \in 1..Len(cust_in.rows) :
        ~IsNull(cust_in.rows[i]["age"]) /\ IsNull(cust_in.rows[i]["club_member_status"])

MissingRequired == {c \in Range(required_columns) : c \notin cust_in.columns}

\* C6: a call on a table that lacks required columns fails with one error that
\* names every one of them and carries no table; a call on a table that has
\* them all raises no schema error.
C6_SchemaValidation ==
    cust_out.kind # "none" =>
        IF MissingRequired # {}
        THEN /\ cust_out.kind = "ValueError"
             /\ DOMAIN cust_out = {"kind", "missing"}
             /\ Range(cust_out.missing) = MissingRequired
             /\ Len(cust_out.missing) = Cardinality(MissingRequired)
        ELSE cust_out.kind = "ok"

\* a call failed on a table with rows that lacks two required columns
C6_Witness ==
    /\ cust_out.kind = "ValueError"
    /\ Cardinality(MissingRequired) = 2
    /\ Len(cust_in.rows) >= 1

(***************************************************************************)
(* Claims about compute_features_transactions, under SpecTransactions.     *)
(***************************************************************************)
TxReturned == tx_out.kind = "ok"

TxOutRows == tx_out.table.rows

\* milliseconds from 1970-01-01 00:00:00 to an instant of t whole seconds
EpochMilliseconds(t) == Dec(t, 3)

\* C7: the output t_dat of every row is the number of milliseconds between
\* 1970-01-01 00:00:00 and the row's input timestamp, whatever unit the input
\* column is stored in.
C7_EpochMilliseconds ==
    TxReturned =>
        /\ Len(TxOutRows) = Len(tx_in.rows)
        /\ \A i \in 1..Len(TxOutRows) :
            TxOutRows[i].t_dat = EpochMilliseconds(tx_in.rows[i].t_dat)

IsLeap(y) == (y % 4 = 0 /\ y % 100 # 0) \/ y % 400 = 0

DaysInMonth(y, mo) ==
    IF mo = 2 THEN (IF IsLeap(y) THEN 29 ELSE 28)
    ELSE IF mo \in {4, 6, 9, 11} THEN 30 ELSE 31

\* leap years before year y, counted from year 1
LeapsBefore(y) == (y - 1) \div 4 - (y - 1) \div 100 + (y - 1) \div 400

RECURSIVE DaysBeforeMonth(_, _)
DaysBeforeMonth(y, mo) ==
    IF mo = 1 THEN 0 ELSE DaysBeforeMonth(y, mo - 1) + DaysInMonth(y, mo - 1)

\* days from 1970-01-01 to the calendar date y-mo-d
DaysFromCivil(y, mo, d) ==
    365 * (y - 1970) + (LeapsBefore(y) - LeapsBefore(1970)) + DaysBeforeMonth(y, mo) + (d - 1)

\* C8: one output row per input row, in input order, whose year, month and
\* day are the calendar date of that row's t_dat (2020-01-15 gives 2020, 1,
\* 15), the same for every row with the same t_dat.
C8_CalendarDecomposition ==
    TxReturned =>
        /\ Len(TxOutRows) = Len(tx_in.rows)
        /\ \A i \in 1..Len(TxOutRows) :
            LET in == tx_in.rows[i]
                out == TxOutRows[i]
            IN  /\ out.customer_id = in.customer_id
                /\ out.article_id = in.article_id
                /\ out.month \in 1..12
                /\ out.day \in 1..DaysInMonth(out.year, out.month)
                /\ DaysFromCivil(out.year, out.month, out.day) = DaysOf(in.t_dat)
                /\ DaysOf(in.t_dat) = 18276 =>
                       (out.year = 2020 /\ out.month = 1 /\ out.day = 15)
                /\ \A j \in 1..Len(TxOutRows) :
                       tx_in.rows[j].t_dat = in.t_dat =>
                           /\ TxOutRows[j].year = out.year
                           /\ TxOutRows[j].month = out.month
                           /\ TxOutRows[j].day = out.day

\* a call returned a table of two rows, one of 2020-01-15 and one of the leap
\* day 2020-02-29
C8_Witness ==
    /\ TxReturned
    /\ Len(TxOutRows) = 2
    /\ DaysOf(tx_in.rows[1].t_dat) = 18276
    /\ TxOutRows[2].year = 2020 /\ TxOutRows[2].month = 2 /\ TxOutRows[2].day = 29

====
